---- MODULE Spec2Model ----
(***************************************************************************)
(* Cloud resource manager: lifecycle state pattern, logging decorator,     *)
(* resource factory, user repository, login services and the               *)
(* ResourceManager facade (src/src/core, src/src/patterns,                 *)
(* src/src/services).                                                      *)
(*                                                                         *)
(* Python values are encoded as follows.  Optional[X] is a sequence of     *)
(* length 0 (None) or 1.  Objects live in `heap`; a reference is an index  *)
(* into it.  A dict is a function whose domain is its key set.  What an    *)
(* operation returned or raised is recorded in `last`.                     *)
(***************************************************************************)
EXTENDS Integers, Sequences, FiniteSets, TLC

\* Bounds of the model.
MaxResources == 2
MaxObjects == 3
MaxSessionResources == 1

VARIABLES
    store,          \* UserRepository: data["users"] of the JSON file
    login_service,  \* ResourceManager.login_service (class of the injected service)
    current_user,   \* ResourceManager.current_user
    resources,      \* ResourceManager.resources
    next_id,        \* ResourceManager.next_id
    registry,       \* ResourceManager.factory.registry
    heap,           \* the CloudResource objects that exist
    pending,        \* the add_user calls of concurrent callers that are under way
    last            \* the call made last and what it returned or raised

vars == <<store, login_service, current_user, resources, next_id, registry, heap,
          pending, last>>

None == <<>>
Some(x) == <<x>>

----------------------------------------------------------------------------
(* str(int) for the ids *)

Digit == <<"0", "1", "2", "3", "4", "5", "6", "7", "8", "9">>

RECURSIVE str(_)
str(n) == IF n < 10 THEN Digit[n + 1] ELSE str(n \div 10) \o Digit[(n % 10) + 1]

----------------------------------------------------------------------------
(* resource_state.py: the state pattern *)

StateClasses == {"CreatedState", "RunningState", "StoppedState", "DeletedState"}

get_state_name(s) ==
    CASE s = "CreatedState" -> "CREATED"
      [] s = "RunningState" -> "RUNNING"
      [] s = "StoppedState" -> "STOPPED"
      [] s = "DeletedState" -> "DELETED"

Moved(s) == [raised |-> FALSE, state |-> s, msg |-> ""]
Raise(m) == [raised |-> TRUE, state |-> "", msg |-> m]

\* mutant: start() on a running resource is accepted as a no-op
state_start_Idempotent(s) ==
    CASE s = "CreatedState" -> Moved("RunningState")
      [] s = "RunningState" -> Moved("RunningState")
      [] s = "StoppedState" -> Moved("RunningState")
      [] s = "DeletedState" -> Raise("Cannot start a deleted resource")

\* <State>.start(resource): the state set on the resource, or the ValueError raised
state_start(s) ==
    CASE s = "CreatedState" -> Moved("RunningState")
      [] s = "RunningState" -> Raise("Resource is already running")
      [] s = "StoppedState" -> Moved("RunningState")
      [] s = "DeletedState" -> Raise("Cannot start a deleted resource")

\* mutant: RunningState.stop puts the resource back into CreatedState
state_stop_Resets(s) ==
    CASE s = "CreatedState" -> Raise("Cannot stop a resource that hasn't been started")
      [] s = "RunningState" -> Moved("CreatedState")
      [] s = "StoppedState" -> Raise("Resource is already stopped")
      [] s = "DeletedState" -> Raise("Cannot stop a deleted resource")

\* mutant: DeletedState.stop behaves as RunningState.stop
state_stop_OnDeleted(s) ==
    CASE s = "CreatedState" -> Raise("Cannot stop a resource that hasn't been started")
      [] s = "RunningState" -> Moved("StoppedState")
      [] s = "StoppedState" -> Raise("Resource is already stopped")
      [] s = "DeletedState" -> Moved("StoppedState")

\* mutant: CreatedState.stop moves to STOPPED
state_stop_FromCreated(s) ==
    CASE s = "CreatedState" -> Moved("StoppedState")
      [] s = "RunningState" -> Moved("StoppedState")
      [] s = "StoppedState" -> Raise("Resource is already stopped")
      [] s = "DeletedState" -> Raise("Cannot stop a deleted resource")

\* <State>.stop(resource)
state_stop(s) ==
    CASE s = "CreatedState" -> Raise("Cannot stop a resource that hasn't been started")
      [] s = "RunningState" -> Moved("StoppedState")
      [] s = "StoppedState" -> Raise("Resource is already stopped")
      [] s = "DeletedState" -> Raise("Cannot stop a deleted resource")

\* mutant: RunningState.delete does not insist on a stop first
state_delete_WhileRunning(s) ==
    CASE s = "CreatedState" -> Moved("DeletedState")
      [] s = "RunningState" -> Moved("DeletedState")
      [] s = "StoppedState" -> Moved("DeletedState")
      [] s = "DeletedState" -> Raise("Resource is already deleted")

\* <State>.delete(resource)
state_delete(s) ==
    CASE s = "CreatedState" -> Moved("DeletedState")
      [] s = "RunningState" -> Raise("Cannot delete a running resource. Stop it first")
      [] s = "StoppedState" -> Moved("DeletedState")
      [] s = "DeletedState" -> Raise("Resource is already deleted")

Events == {"start", "stop", "delete"}

state_call(s, e) ==
    CASE e = "start" -> state_start(s)
      [] e = "stop" -> state_stop(s)
      [] e = "delete" -> state_delete(s)

----------------------------------------------------------------------------
(* cloud_resource.py, resource_decorator.py: the objects *)

ResourceClasses == {"AppService", "StorageAccount", "CacheDB"}

NoAttrs == [k \in {} |-> ""]

\* mutant: a new resource starts in RunningState
NewResource_StartsRunning(cls, id, name, attrs) ==
    [cls |-> cls, id |-> id, name |-> name, current_state |-> "RunningState",
     wrapped_resource |-> 0, attrs |-> attrs]

\* CloudResource.__init__ and the subclass's own fields
NewResource(cls, id, name, attrs) ==
    [cls |-> cls, id |-> id, name |-> name, current_state |-> "CreatedState",
     wrapped_resource |-> 0, attrs |-> attrs]

\* mutant: the decorator does not take over the id of what it wraps
NewDecorator_NoId(hp, w) ==
    [cls |-> "LoggingDecorator", id |-> "", name |-> hp[w].name,
     current_state |-> hp[w].current_state, wrapped_resource |-> w, attrs |-> NoAttrs]

\* ResourceDecorator.__init__: id, name and current_state are copied from the
\* wrapped resource when the decorator is built
NewDecorator(hp, w) ==
    [cls |-> "LoggingDecorator", id |-> hp[w].id, name |-> hp[w].name,
     current_state |-> hp[w].current_state, wrapped_resource |-> w, attrs |-> NoAttrs]

IsDecorator(o) == o.cls = "LoggingDecorator"

\* the resource at the end of the wrapped_resource chain
RECURSIVE Target(_, _)
Target(hp, h) == IF IsDecorator(hp[h]) THEN Target(hp, hp[h].wrapped_resource) ELSE h

\* number of decorators between h and its target
RECURSIVE Depth(_, _)
Depth(hp, h) == IF IsDecorator(hp[h]) THEN 1 + Depth(hp, hp[h].wrapped_resource) ELSE 0

\* get_state(): a decorator forwards, a resource asks its current state
RECURSIVE get_state(_, _)
get_state(hp, h) ==
    IF IsDecorator(hp[h]) THEN get_state(hp, hp[h].wrapped_resource)
    ELSE get_state_name(hp[h].current_state)

\* get_details(): a decorator forwards, a resource formats its own fields
RECURSIVE get_details(_, _)
get_details(hp, h) ==
    LET o == hp[h] IN
    CASE IsDecorator(o) -> get_details(hp, o.wrapped_resource)
      [] o.cls = "AppService" ->
            <<"AppService", o.id, o.name, "State", get_state(hp, h),
              "Runtime", o.attrs["runtime"], "Region", o.attrs["region"],
              "Replicas", o.attrs["replica_count"]>>
      [] o.cls = "StorageAccount" ->
            <<"StorageAccount", o.id, o.name, "State", get_state(hp, h),
              "Encryption",
              IF o.attrs["encryption_enabled"] = "True" THEN "Enabled" ELSE "Disabled",
              "Max Size", o.attrs["max_size_gb"] \o "GB">>
      [] o.cls = "CacheDB" ->
            <<"CacheDB", o.id, o.name, "State", get_state(hp, h),
              "TTL", o.attrs["ttl_seconds"] \o "s",
              "Capacity", o.attrs["capacity_mb"] \o "MB",
              "Eviction", o.attrs["eviction_policy"]>>

\* LoggingDecorator._log records
LogBegin(name, e) == <<"Attempting to", e, name, "">>
LogSuccess(name, e) == <<"Successfully", e, name, "">>
LogFailure(name, e, msg) == <<"Failed to", e, name, msg>>

\* CloudResource.start/stop/delete on a resource: the current state decides and
\* calls set_state on the resource
resource_call(hp, h, e) ==
    LET t == state_call(hp[h].current_state, e) IN
    IF t.raised
    THEN [heap |-> hp, raised |-> TRUE, msg |-> t.msg, log |-> <<>>]
    ELSE [heap |-> [hp EXCEPT ![h].current_state = t.state],
          raised |-> FALSE, msg |-> "", log |-> <<>>]

\* mutant: the decorator logs the failure and returns normally
RECURSIVE call_Swallow(_, _, _)
call_Swallow(hp, h, e) ==
    IF IsDecorator(hp[h])
    THEN LET r == call_Swallow(hp, hp[h].wrapped_resource, e) IN
         [r EXCEPT !.raised = FALSE,
                   !.log = <<LogBegin(hp[h].name, e)>> \o r.log \o
                           <<IF r.raised THEN LogFailure(hp[h].name, e, r.msg)
                                         ELSE LogSuccess(hp[h].name, e)>>]
    ELSE resource_call(hp, h, e)

\* mutant: the outcome record is written in a finally block and always says
\* success
RECURSIVE call_AlwaysLogsSuccess(_, _, _)
call_AlwaysLogsSuccess(hp, h, e) ==
    IF IsDecorator(hp[h])
    THEN LET r == call_AlwaysLogsSuccess(hp, hp[h].wrapped_resource, e) IN
         [r EXCEPT !.log = <<LogBegin(hp[h].name, e)>> \o r.log \o
                           <<LogSuccess(hp[h].name, e)>>]
    ELSE resource_call(hp, h, e)

\* LoggingDecorator.start/stop/delete: log, forward to wrapped_resource, log,
\* re-raise
RECURSIVE call(_, _, _)
call(hp, h, e) ==
    IF IsDecorator(hp[h])
    THEN LET r == call(hp, hp[h].wrapped_resource, e) IN
         [r EXCEPT !.log = <<LogBegin(hp[h].name, e)>> \o r.log \o
                           <<IF r.raised THEN LogFailure(hp[h].name, e, r.msg)
                                         ELSE LogSuccess(hp[h].name, e)>>]
    ELSE resource_call(hp, h, e)

----------------------------------------------------------------------------
(* resource_factory.py *)

\* ResourceFactory._register_defaults
DefaultRegistry ==
    [t \in {"AppService", "StorageAccount", "CacheDB"} |-> t]

\* the constructor parameters of each resource class after (resource_id, name)
Params(cls) ==
    CASE cls = "AppService" -> <<"runtime", "region", "replica_count">>
      [] cls = "StorageAccount" -> <<"encryption_enabled", "max_size_gb">>
      [] cls = "CacheDB" -> <<"ttl_seconds", "capacity_mb", "eviction_policy">>

Built(o) == [raised |-> FALSE, exc |-> "", msg |-> "", obj |-> o]
Failed(exc, msg) ==
    [raised |-> TRUE, exc |-> exc, msg |-> msg, obj |-> NewResource("", "", "", NoAttrs)]

\* resource_class(id, name, *rest): positional binding, TypeError on a wrong count
Construct(cls, id, name, rest) ==
    IF Len(rest) # Len(Params(cls))
    THEN Failed("TypeError", cls)
    ELSE Built(NewResource(cls, id, name,
                 [k \in {Params(cls)[i] : i \in 1..Len(rest)} |->
                    rest[CHOOSE i \in 1..Len(rest) : Params(cls)[i] = k]]))

\* the first key of `keys` that config lacks, in evaluation order
RECURSIVE FirstMissing(_, _)
FirstMissing(config, keys) ==
    IF keys = <<>> THEN None
    ELSE IF Head(keys) \notin DOMAIN config THEN Some(Head(keys))
    ELSE FirstMissing(config, Tail(keys))

\* ResourceFactory.create_resource
create_resource(reg, resource_type, config) ==
    IF resource_type \notin DOMAIN reg
    THEN Failed("ValueError", "Unknown resource type: " \o resource_type)
    ELSE
    LET resource_class == reg[resource_type] IN
    CASE resource_type = "AppService" ->
            LET miss == FirstMissing(config,
                          <<"id", "name", "runtime", "region", "replica_count">>) IN
            IF miss # None THEN Failed("KeyError", miss[1])
            ELSE Construct(resource_class, config["id"], config["name"],
                   <<config["runtime"], config["region"], config["replica_count"]>>)
      [] resource_type = "StorageAccount" ->
            LET miss == FirstMissing(config,
                          <<"id", "name", "encryption_enabled", "max_size_gb">>) IN
            IF miss # None THEN Failed("KeyError", miss[1])
            ELSE Construct(resource_class, config["id"], config["name"],
                   <<config["encryption_enabled"], config["max_size_gb"]>>)
      [] resource_type = "CacheDB" ->
            LET eviction_policy == IF "eviction_policy" \in DOMAIN config
                                   THEN config["eviction_policy"] ELSE "LRU"
                strategy == IF eviction_policy = "LRU" THEN "LRUStrategy"
                            ELSE "FIFOStrategy"
                miss == FirstMissing(config,
                          <<"id", "name", "ttl_seconds", "capacity_mb">>)
            IN
            IF miss # None THEN Failed("KeyError", miss[1])
            ELSE Construct(resource_class, config["id"], config["name"],
                   <<config["ttl_seconds"], config["capacity_mb"], strategy>>)
      [] OTHER -> Failed("ValueError", "Cannot instantiate resource type: " \o resource_type)

----------------------------------------------------------------------------
(* user_repository.py *)

User(username, password, role) ==
    [username |-> username, password |-> password, role |-> role]

to_dict(user) ==
    [username |-> user.username, password |-> user.password, role |-> user.role]

from_dict(data) ==
    User(data.username, data.password,
         IF "role" \in DOMAIN data THEN data.role ELSE "user")

\* UserRepository.find_by_username: the first record with that username
RECURSIVE find_by_username(_, _)
find_by_username(users, username) ==
    IF users = <<>> THEN None
    ELSE IF Head(users).username = username THEN Some(from_dict(Head(users)))
    ELSE find_by_username(Tail(users), username)

\* mutant: an existing username is overwritten with the new record
add_user_Overwrite(users, user) ==
    IF \E i \in 1..Len(users) : users[i].username = user.username
    THEN [ok |-> FALSE,
          users |-> [i \in 1..Len(users) |->
                       IF users[i].username = user.username THEN to_dict(user)
                       ELSE users[i]]]
    ELSE [ok |-> TRUE, users |-> Append(users, to_dict(user))]

\* UserRepository.add_user: the value returned and the file written
add_user(users, user) ==
    IF \E i \in 1..Len(users) : users[i].username = user.username
    THEN [ok |-> FALSE, users |-> users]
    ELSE [ok |-> TRUE, users |-> Append(users, to_dict(user))]

\* mutant: a user that is not found is added
update_user_Upsert(users, user) ==
    IF \E i \in 1..Len(users) : users[i].username = user.username
    THEN LET i == CHOOSE j \in 1..Len(users) :
                     /\ users[j].username = user.username
                     /\ \A k \in 1..(j - 1) : users[k].username # user.username
         IN [ok |-> TRUE, users |-> [users EXCEPT ![i] = to_dict(user)]]
    ELSE [ok |-> FALSE, users |-> Append(users, to_dict(user))]

\* UserRepository.update_user: the first record with the username is replaced
update_user(users, user) ==
    IF \E i \in 1..Len(users) : users[i].username = user.username
    THEN LET i == CHOOSE j \in 1..Len(users) :
                     /\ users[j].username = user.username
                     /\ \A k \in 1..(j - 1) : users[k].username # user.username
         IN [ok |-> TRUE, users |-> [users EXCEPT ![i] = to_dict(user)]]
    ELSE [ok |-> FALSE, users |-> users]

\* the list comprehension of delete_user: the records of other users, in order
RECURSIVE without(_, _)
without(users, username) ==
    IF users = <<>> THEN <<>>
    ELSE IF Head(users).username = username THEN without(Tail(users), username)
    ELSE <<Head(users)>> \o without(Tail(users), username)

\* UserRepository.delete_user: written only when a record was removed
delete_user(users, username) ==
    LET kept == without(users, username) IN
    IF Len(kept) < Len(users)
    THEN [ok |-> TRUE, users |-> kept]
    ELSE [ok |-> FALSE, users |-> users]

----------------------------------------------------------------------------
(* login_service.py *)

LoginServices == {"FileLogin", "ServiceLogin"}

\* mutant: a known username is enough, the password is not compared
file_authenticate_AnyPassword(users, username, password) ==
    find_by_username(users, username) # None

\* FileLogin.authenticate
file_authenticate(users, username, password) ==
    LET user == find_by_username(users, username) IN
    IF user = None THEN FALSE ELSE user[1].password = password

\* mutant: the stub only looks at the username
service_authenticate_UsernameOnly(username, password) ==
    username # ""

\* ServiceLogin.authenticate: `if username and password`
service_authenticate(username, password) ==
    username # "" /\ password # ""

authenticate(service, users, username, password) ==
    IF service = "FileLogin" THEN file_authenticate(users, username, password)
    ELSE service_authenticate(username, password)

----------------------------------------------------------------------------
(* the inputs the callers draw from *)

Logins == {<<"alice", "pw1">>, <<"alice", "pw2">>, <<"bob", "pw2">>, <<"bob", "">>}
Registrations ==
    {<<"alice", "pw1", "admin">>, <<"alice", "pw2", "user">>, <<"bob", "pw2", "user">>}

\* two users who know their passwords
TwoUsers == {<<"alice", "pw1", "admin">>, <<"bob", "pw2", "user">>}

\* the credentials given to a login service directly
Credentials == Logins \cup {<<"", "pw1">>}

\* the records update_user is called with: a new role, a new password
Updates ==
    {<<"alice", "pw1", "superadmin">>, <<"alice", "pw2", "admin">>,
     <<"bob", "pw2", "admin">>}
Usernames == {"alice", "bob"}

AppCfg == [name |-> "W", runtime |-> "Python", region |-> "us-east-1",
           replica_count |-> "3"]
StorageCfg == [name |-> "S", encryption_enabled |-> "True", max_size_gb |-> "100"]
CacheCfg(policy) == [name |-> "C", ttl_seconds |-> "3600", capacity_mb |-> "512",
                     eviction_policy |-> policy]
CacheCfgNoPolicy == [name |-> "C", ttl_seconds |-> "3600", capacity_mb |-> "512"]
AppCfgNoRegion == [name |-> "W", runtime |-> "Python", replica_count |-> "3"]

\* what the Manager's callers create
ManagerCreates ==
    {<<"AppService", AppCfg>>, <<"AppService", AppCfgNoRegion>>, <<"Queue", AppCfg>>}

\* what the factory's direct callers create
FactoryCreates ==
    {<<"AppService", AppCfg>>, <<"CacheDB", CacheCfg("lru")>>, <<"Queue", AppCfg>>}

\* the eviction_policy values given to the factory: the two documented ones, a
\* lowercase spelling, and none
CacheCreates ==
    {CacheCfg("LRU"), CacheCfg("FIFO"), CacheCfg("lru"), CacheCfgNoPolicy}

ResourceIds == {str(i) : i \in 1..MaxResources}

\* config[key] = value
SetItem(config, key, value) ==
    [k \in DOMAIN config \cup {key} |-> IF k = key THEN value ELSE config[k]]

----------------------------------------------------------------------------
(* what a call returned *)

Returned(op, args, h, ret, out) ==
    [op |-> op, args |-> args, h |-> h, ret |-> ret, out |-> out,
     keys |-> {}, log |-> <<>>]

NoCall == Returned("", <<>>, 0, "None", <<>>)

Bool(b) == IF b THEN "True" ELSE "False"

\* mutant: the test is inverted
is_authenticated_Inverted == current_user = None

\* ResourceManager.is_authenticated
\* mutant: the session is valid only while its user is still in the store
is_authenticated_ChecksStore ==
    /\ current_user # None
    /\ find_by_username(store, current_user[1].username) = current_user

is_authenticated == current_user # None

\* ResourceManager.get_resource: self.resources.get(resource_id)
get_resource(resource_id) ==
    IF resource_id \in DOMAIN resources THEN Some(resources[resource_id]) ELSE None

----------------------------------------------------------------------------
(* resource_manager.py: the operations of ResourceManager *)

\* mutant: whoever the provider accepts is logged in, with or without a record
Login_TrustProvider(username, password) ==
    LET accepted == authenticate(login_service, store, username, password)
        found == find_by_username(store, username)
    IN
    /\ current_user' = IF ~accepted THEN current_user
                       ELSE IF found = None THEN Some(User(username, password, "user"))
                       ELSE found
    /\ last' = Returned("login", <<username, password>>, 0, Bool(accepted), <<>>)
    /\ UNCHANGED <<pending, store, login_service, resources, next_id, registry, heap>>

\* mutant: a login is refused while another user is logged in
Login_RequiresLogout(username, password) ==
    LET accepted == /\ current_user = None
                    /\ authenticate(login_service, store, username, password)
        found == find_by_username(store, username)
    IN
    /\ current_user' = IF accepted THEN found ELSE current_user
    /\ last' = Returned("login", <<username, password>>, 0,
                        Bool(accepted /\ found # None), <<>>)
    /\ UNCHANGED <<pending, store, login_service, resources, next_id, registry, heap>>

Login(username, password) ==
    LET accepted == authenticate(login_service, store, username, password)
        found == find_by_username(store, username)
    IN
    /\ current_user' = IF accepted THEN found ELSE current_user
    /\ last' = Returned("login", <<username, password>>, 0,
                        Bool(accepted /\ found # None), <<>>)
    /\ UNCHANGED <<pending, store, login_service, resources, next_id, registry, heap>>

\* mutant: logging out starts the ids again
Logout_ResetsCounter ==
    /\ current_user' = None
    /\ next_id' = 1
    /\ last' = Returned("logout", <<>>, 0, "None", <<>>)
    /\ UNCHANGED <<pending, store, login_service, resources, registry, heap>>

\* mutant: the username is printed without testing for a logged-in user
Logout_Strict ==
    /\ current_user' = None
    /\ last' = Returned("logout", <<>>, 0,
                        IF current_user = None THEN "AttributeError" ELSE "None", <<>>)
    /\ UNCHANGED <<pending, store, login_service, resources, next_id, registry, heap>>

Logout ==
    /\ current_user' = None
    /\ last' = Returned("logout", <<>>, 0, "None", <<>>)
    /\ UNCHANGED <<pending, store, login_service, resources, next_id, registry, heap>>

\* mutant: registration is gated on the session like the resource operations
RegisterUser_Gated(username, password, role) ==
    LET r == add_user(store, User(username, password, role)) IN
    /\ store' = IF is_authenticated THEN r.users ELSE store
    /\ last' = Returned("register_user", <<username, password, role>>, 0,
                        Bool(is_authenticated /\ r.ok), <<>>)
    /\ UNCHANGED <<pending, login_service, current_user, resources, next_id, registry, heap>>

RegisterUser(username, password, role) ==
    LET r == add_user(store, User(username, password, role)) IN
    /\ store' = r.users
    /\ last' = Returned("register_user", <<username, password, role>>, 0, Bool(r.ok), <<>>)
    /\ UNCHANGED <<pending, login_service, current_user, resources, next_id, registry, heap>>

\* mutant: the id is taken before the factory is called and is lost when it raises
CreateResource_BurnsId(resource_type, config, enable_logging) ==
    /\ next_id <= MaxResources
    /\ LET args == <<resource_type, Bool(enable_logging)>>
           r == create_resource(registry, resource_type,
                                SetItem(config, "id", str(next_id)))
           base == Len(heap) + 1
           resource_id == str(next_id)
       IN
       IF ~is_authenticated
       THEN /\ last' = Returned("create_resource", args, 0, "None", <<>>)
            /\ UNCHANGED <<resources, next_id, heap>>
       ELSE IF r.raised
       THEN /\ last' = Returned("create_resource", args, 0, r.exc, <<r.msg>>)
            /\ next_id' = next_id + 1
            /\ UNCHANGED <<resources, heap>>
       ELSE /\ heap' = IF enable_logging
                       THEN LET hp == Append(heap, r.obj)
                            IN Append(hp, NewDecorator(hp, base))
                       ELSE Append(heap, r.obj)
            /\ resources' = SetItem(resources, resource_id,
                                    IF enable_logging THEN base + 1 ELSE base)
            /\ next_id' = next_id + 1
            /\ last' = Returned("create_resource", args, 0, "str", <<resource_id>>)
    /\ UNCHANGED <<pending, store, login_service, current_user, registry>>

CreateResource(resource_type, config, enable_logging) ==
    /\ next_id <= MaxResources
    /\ LET args == <<resource_type, Bool(enable_logging)>>
           r == create_resource(registry, resource_type,
                                SetItem(config, "id", str(next_id)))
           base == Len(heap) + 1
           resource_id == str(next_id)
       IN
       IF ~is_authenticated
       THEN /\ last' = Returned("create_resource", args, 0, "None", <<>>)
            /\ UNCHANGED <<resources, next_id, heap>>
       ELSE IF r.raised
       THEN /\ last' = Returned("create_resource", args, 0, r.exc, <<r.msg>>)
            /\ UNCHANGED <<resources, next_id, heap>>
       ELSE /\ heap' = IF enable_logging
                       THEN LET hp == Append(heap, r.obj)
                            IN Append(hp, NewDecorator(hp, base))
                       ELSE Append(heap, r.obj)
            /\ resources' = SetItem(resources, resource_id,
                                    IF enable_logging THEN base + 1 ELSE base)
            /\ next_id' = next_id + 1
            /\ last' = Returned("create_resource", args, 0, "str", <<resource_id>>)
    /\ UNCHANGED <<pending, store, login_service, current_user, registry>>

GetResource(resource_id) ==
    LET resource == get_resource(resource_id) IN
    /\ last' = IF resource = None
               THEN Returned("get_resource", <<resource_id>>, 0, "None", <<>>)
               ELSE Returned("get_resource", <<resource_id>>, resource[1], "object", <<>>)
    /\ UNCHANGED <<pending, store, login_service, current_user, resources, next_id, registry, heap>>

ListResources ==
    /\ last' = [Returned("list_resources", <<>>, 0, "dict", <<>>) EXCEPT
                  !.keys = IF is_authenticated THEN DOMAIN resources ELSE {}]
    /\ UNCHANGED <<pending, store, login_service, current_user, resources, next_id, registry, heap>>

\* mutant: the error of the resource is caught and the call returns True
ManagerCall_Swallow(op, e, resource_id) ==
    LET resource == get_resource(resource_id) IN
    /\ IF ~is_authenticated \/ resource = None
       THEN /\ last' = Returned(op, <<resource_id>>, 0, "False", <<>>)
            /\ UNCHANGED heap
       ELSE LET r == call(heap, resource[1], e) IN
            /\ heap' = r.heap
            /\ last' = [Returned(op, <<resource_id>>, 0, "True", <<>>)
                        EXCEPT !.log = r.log]
    /\ UNCHANGED <<pending, store, login_service, current_user, resources, next_id, registry>>

\* mutant: only a user whose role is admin may start, stop or delete
ManagerCall_AdminOnly(op, e, resource_id) ==
    LET resource == get_resource(resource_id) IN
    /\ IF ~is_authenticated \/ resource = None
       THEN /\ last' = Returned(op, <<resource_id>>, 0, "False", <<>>)
            /\ UNCHANGED heap
       ELSE IF current_user[1].role # "admin"
       THEN /\ last' = Returned(op, <<resource_id>>, 0, "False", <<>>)
            /\ UNCHANGED heap
       ELSE LET r == call(heap, resource[1], e) IN
            /\ heap' = r.heap
            /\ last' = [Returned(op, <<resource_id>>, 0,
                                 IF r.raised THEN "ValueError" ELSE "True",
                                 IF r.raised THEN <<r.msg>> ELSE <<>>)
                        EXCEPT !.log = r.log]
    /\ UNCHANGED <<pending, store, login_service, current_user, resources, next_id, registry>>

\* mutant: the resource is looked up with resources[resource_id]
ManagerCall_KeyError(op, e, resource_id) ==
    LET resource == get_resource(resource_id) IN
    /\ IF ~is_authenticated
       THEN /\ last' = Returned(op, <<resource_id>>, 0, "False", <<>>)
            /\ UNCHANGED heap
       ELSE IF resource = None
       THEN /\ last' = Returned(op, <<resource_id>>, 0, "KeyError", <<resource_id>>)
            /\ UNCHANGED heap
       ELSE LET r == call(heap, resource[1], e) IN
            /\ heap' = r.heap
            /\ last' = [Returned(op, <<resource_id>>, 0,
                                 IF r.raised THEN "ValueError" ELSE "True",
                                 IF r.raised THEN <<r.msg>> ELSE <<>>)
                        EXCEPT !.log = r.log]
    /\ UNCHANGED <<pending, store, login_service, current_user, resources, next_id, registry>>

\* start_resource, stop_resource and delete_resource differ in the method called
ManagerCall(op, e, resource_id) ==
    LET resource == get_resource(resource_id) IN
    /\ IF ~is_authenticated \/ resource = None
       THEN /\ last' = Returned(op, <<resource_id>>, 0, "False", <<>>)
            /\ UNCHANGED heap
       ELSE LET r == call(heap, resource[1], e) IN
            /\ heap' = r.heap
            /\ last' = [Returned(op, <<resource_id>>, 0,
                                 IF r.raised THEN "ValueError" ELSE "True",
                                 IF r.raised THEN <<r.msg>> ELSE <<>>)
                        EXCEPT !.log = r.log]
    /\ UNCHANGED <<pending, store, login_service, current_user, resources, next_id, registry>>

\* mutant: a deleted resource is taken out of the collection
DeleteResource_Removes(resource_id) ==
    LET resource == get_resource(resource_id) IN
    /\ IF ~is_authenticated \/ resource = None
       THEN /\ last' = Returned("delete_resource", <<resource_id>>, 0, "False", <<>>)
            /\ UNCHANGED <<heap, resources>>
       ELSE LET r == call(heap, resource[1], "delete") IN
            /\ heap' = r.heap
            /\ resources' = IF r.raised THEN resources
                            ELSE [k \in DOMAIN resources \ {resource_id} |-> resources[k]]
            /\ last' = [Returned("delete_resource", <<resource_id>>, 0,
                                 IF r.raised THEN "ValueError" ELSE "True",
                                 IF r.raised THEN <<r.msg>> ELSE <<>>)
                        EXCEPT !.log = r.log]
    /\ UNCHANGED <<pending, store, login_service, current_user, next_id, registry>>

StartResource(resource_id) == ManagerCall("start_resource", "start", resource_id)

StopResource(resource_id) == ManagerCall("stop_resource", "stop", resource_id)

DeleteResource(resource_id) == ManagerCall("delete_resource", "delete", resource_id)

GetResourceDetails(resource_id) ==
    LET resource == get_resource(resource_id) IN
    /\ last' = IF ~is_authenticated \/ resource = None
               THEN Returned("get_resource_details", <<resource_id>>, 0, "None", <<>>)
               ELSE Returned("get_resource_details", <<resource_id>>, 0, "str",
                             get_details(heap, resource[1]))
    /\ UNCHANGED <<pending, store, login_service, current_user, resources, next_id, registry, heap>>

----------------------------------------------------------------------------
(* calls made on a resource object itself *)

\* h.start(), h.stop(), h.delete() on the object h
Invoke(h, e) ==
    LET r == call(heap, h, e) IN
    /\ heap' = r.heap
    /\ last' = [Returned(e, <<>>, h, IF r.raised THEN "ValueError" ELSE "None",
                         IF r.raised THEN <<r.msg>> ELSE <<>>)
                EXCEPT !.log = r.log]
    /\ UNCHANGED <<pending, store, login_service, current_user, resources, next_id, registry>>

Start(h) == Invoke(h, "start")

Stop(h) == Invoke(h, "stop")

Delete(h) == Invoke(h, "delete")

\* LoggingDecorator(h)
Wrap(h) ==
    /\ Len(heap) < MaxObjects
    /\ heap' = Append(heap, NewDecorator(heap, h))
    /\ last' = Returned("LoggingDecorator", <<>>, Len(heap) + 1, "object", <<>>)
    /\ UNCHANGED <<pending, store, login_service, current_user, resources, next_id, registry>>

\* ResourceFactory().create_resource(resource_type, config) with the caller's id
FactoryCreate(resource_type, config) ==
    /\ Len(heap) < MaxObjects
    /\ LET r == create_resource(registry, resource_type,
                                SetItem(config, "id", str(Len(heap) + 1)))
       IN
       IF r.raised
       THEN /\ last' = Returned("factory.create_resource", <<resource_type>>, 0,
                                r.exc, <<r.msg>>)
            /\ UNCHANGED heap
       ELSE /\ heap' = Append(heap, r.obj)
            /\ last' = Returned("factory.create_resource", <<resource_type>>,
                                Len(heap) + 1, "object", <<>>)
    /\ UNCHANGED <<pending, store, login_service, current_user, resources, next_id, registry>>

----------------------------------------------------------------------------
(* calls made on the UserRepository itself *)

\* repo.add_user(User(username, password, role))
AddUser(username, password, role) ==
    LET r == add_user(store, User(username, password, role)) IN
    /\ store' = r.users
    /\ last' = Returned("add_user", <<username, password, role>>, 0, Bool(r.ok), <<>>)
    /\ UNCHANGED <<pending, login_service, current_user, resources, next_id, registry, heap>>

\* repo.update_user(User(username, password, role))
UpdateUser(username, password, role) ==
    LET r == update_user(store, User(username, password, role)) IN
    /\ store' = r.users
    /\ last' = Returned("update_user", <<username, password, role>>, 0, Bool(r.ok), <<>>)
    /\ UNCHANGED <<pending, login_service, current_user, resources, next_id, registry, heap>>

\* repo.delete_user(username)
DeleteUser(username) ==
    LET r == delete_user(store, username) IN
    /\ store' = r.users
    /\ last' = Returned("delete_user", <<username>>, 0, Bool(r.ok), <<>>)
    /\ UNCHANGED <<pending, login_service, current_user, resources, next_id, registry, heap>>

\* login_service.authenticate(username, password)
Authenticate(username, password) ==
    /\ last' = Returned("authenticate", <<username, password>>, 0,
                        Bool(authenticate(login_service, store, username, password)), <<>>)
    /\ UNCHANGED <<pending, store, login_service, current_user, resources, next_id, registry, heap>>

----------------------------------------------------------------------------
(* add_user called by two callers of one user file at once *)

\* two callers, or two Managers, that share the file
Callers == {1, 2}

NotCalling == [pc |-> "idle", user |-> User("", "", ""), data |-> <<>>, ret |-> ""]

\* add_user up to the return of _read_data: the caller holds what it read
AddUserRead(c, username, password, role) ==
    /\ pending[c].pc # "read"
    /\ pending' = [pending EXCEPT ![c] = [pc |-> "read",
                                          user |-> User(username, password, role),
                                          data |-> store, ret |-> ""]]
    /\ UNCHANGED <<store, login_service, current_user, resources, next_id, registry,
                   heap, last>>

\* mutant: the file is read again and tested at the moment of the write
AddUserWrite_Rereads(c) ==
    /\ pending[c].pc = "read"
    /\ LET user == pending[c].user
           r == add_user(store, user)
       IN
       /\ store' = IF r.ok THEN r.users ELSE store
       /\ pending' = [pending EXCEPT ![c].pc = "returned", ![c].ret = Bool(r.ok)]
       /\ last' = Returned("add_user", <<user.username, user.password, user.role>>, 0,
                           Bool(r.ok), <<>>)
    /\ UNCHANGED <<login_service, current_user, resources, next_id, registry, heap>>

\* the rest of add_user: the test and the append on the data read earlier,
\* _write_data of that data, the return
AddUserWrite(c) ==
    /\ pending[c].pc = "read"
    /\ LET user == pending[c].user
           r == add_user(pending[c].data, user)
       IN
       /\ store' = IF r.ok THEN r.users ELSE store
       /\ pending' = [pending EXCEPT ![c].pc = "returned", ![c].ret = Bool(r.ok)]
       /\ last' = Returned("add_user", <<user.username, user.password, user.role>>, 0,
                           Bool(r.ok), <<>>)
    /\ UNCHANGED <<login_service, current_user, resources, next_id, registry, heap>>

\* the classes a caller registers under a tag of its own: classes with the
\* constructor of AppService and of StorageAccount
Registers == {<<"Queue", "AppService">>, <<"Queue", "StorageAccount">>}

\* ResourceFactory.register(resource_type, resource_class)
Register(resource_type, resource_class) ==
    /\ registry' = SetItem(registry, resource_type, resource_class)
    /\ last' = Returned("factory.register", <<resource_type, resource_class>>, 0,
                        "None", <<>>)
    /\ UNCHANGED <<pending, store, login_service, current_user, resources, next_id, heap>>

\* the object the Manager's caller holds: the one the last call handed out
Held == IF last.h = 0 THEN {} ELSE {last.h}

----------------------------------------------------------------------------
(* the specifications *)

\* ResourceManager.__init__ over a user file as it may exist and either service
Init ==
    /\ store = <<>>
    /\ login_service \in LoginServices
    /\ current_user = None
    /\ resources = [k \in {} |-> 0]
    /\ next_id = 1
    /\ registry = DefaultRegistry
    /\ heap = <<>>
    /\ pending = [c \in Callers |-> NotCalling]
    /\ last = NoCall

\* a ResourceManager and its callers
Next ==
    \/ \E c \in Logins : Login(c[1], c[2])
    \/ Logout
    \/ \E reg \in Registrations : RegisterUser(reg[1], reg[2], reg[3])
    \/ \E c \in ManagerCreates, enable_logging \in BOOLEAN :
          CreateResource(c[1], c[2], enable_logging)
    \/ \E id \in ResourceIds : GetResource(id)
    \/ ListResources
    \/ \E id \in ResourceIds : StartResource(id)
    \/ \E id \in ResourceIds : StopResource(id)
    \/ \E id \in ResourceIds : DeleteResource(id)
    \/ \E id \in ResourceIds : GetResourceDetails(id)
    \/ \E h \in Held : Start(h)
    \/ \E h \in Held : Stop(h)
    \/ \E h \in Held : Delete(h)

Spec == Init /\ [][Next]_vars

\* the resource classes used directly: factory, decorators, lifecycle calls
NextRes ==
    \/ \E c \in FactoryCreates : FactoryCreate(c[1], c[2])
    \/ \E h \in DOMAIN heap : Wrap(h)
    \/ \E h \in DOMAIN heap : Start(h)
    \/ \E h \in DOMAIN heap : Stop(h)
    \/ \E h \in DOMAIN heap : Delete(h)

InitRes == Init /\ login_service = "FileLogin"

SpecRes == InitRes /\ [][NextRes]_vars

\* the session and the user store of a ResourceManager holding few resources
NextSession ==
    \/ \E c \in Logins : Login(c[1], c[2])
    \/ Logout
    \/ \E reg \in Registrations : RegisterUser(reg[1], reg[2], reg[3])
    \/ /\ next_id <= MaxSessionResources
       /\ \E enable_logging \in BOOLEAN : CreateResource("AppService", AppCfg, enable_logging)
    \/ \E id \in ResourceIds : StartResource(id)

SpecSession == Init /\ [][NextSession]_vars

\* a ResourceFactory whose registry its caller extends
NextFactory ==
    \/ \E reg \in Registers : Register(reg[1], reg[2])
    \/ \E c \in FactoryCreates : FactoryCreate(c[1], c[2])
    \/ \E h \in DOMAIN heap : Start(h)
    \/ \E h \in DOMAIN heap : Delete(h)

SpecFactory == InitRes /\ [][NextFactory]_vars

\* a ResourceFactory asked for CacheDB resources
NextCache ==
    \/ \E config \in CacheCreates : FactoryCreate("CacheDB", config)
    \/ \E h \in DOMAIN heap : Start(h)
    \/ \E h \in DOMAIN heap : Stop(h)

SpecCache == InitRes /\ [][NextCache]_vars

\* a ResourceManager with the file-backed provider, used by two users in turn
NextManager ==
    \/ \E u \in TwoUsers : RegisterUser(u[1], u[2], u[3])
    \/ \E u \in TwoUsers : Login(u[1], u[2])
    \/ Logout
    \/ \E c \in ManagerCreates, enable_logging \in BOOLEAN :
          CreateResource(c[1], c[2], enable_logging)
    \/ ListResources
    \/ \E id \in ResourceIds : StartResource(id)
    \/ \E id \in ResourceIds : StopResource(id)
    \/ \E id \in ResourceIds : DeleteResource(id)
    \/ \E id \in ResourceIds : GetResourceDetails(id)

SpecManager == InitRes /\ [][NextManager]_vars

\* a ResourceManager whose UserRepository is also written to directly
NextSessionCopy ==
    \/ \E u \in TwoUsers : RegisterUser(u[1], u[2], u[3])
    \/ \E u \in TwoUsers : Login(u[1], u[2])
    \/ Logout
    \/ \E u \in Updates : UpdateUser(u[1], u[2], u[3])
    \/ \E username \in Usernames : DeleteUser(username)
    \/ /\ next_id <= MaxSessionResources
       /\ \E enable_logging \in BOOLEAN : CreateResource("AppService", AppCfg, enable_logging)
    \/ ListResources
    \/ \E id \in ResourceIds : StartResource(id)

SpecSessionCopy == InitRes /\ [][NextSessionCopy]_vars

\* a UserRepository whose add_user is called by two callers at once
NextRace ==
    \/ \E c \in Callers, reg \in Registrations : AddUserRead(c, reg[1], reg[2], reg[3])
    \/ \E c \in Callers : AddUserWrite(c)

SpecRace == InitRes /\ [][NextRace]_vars

\* a UserRepository called sequentially
NextStore ==
    \/ \E reg \in Registrations : AddUser(reg[1], reg[2], reg[3])
    \/ \E u \in Updates : UpdateUser(u[1], u[2], u[3])
    \/ \E username \in Usernames : DeleteUser(username)

SpecStore == InitRes /\ [][NextStore]_vars

\* either login service beside a UserRepository that changes
NextAuth ==
    \/ \E reg \in Registrations : AddUser(reg[1], reg[2], reg[3])
    \/ \E username \in Usernames : DeleteUser(username)
    \/ \E c \in Credentials : Authenticate(c[1], c[2])

SpecAuth == Init /\ [][NextAuth]_vars

----------------------------------------------------------------------------
(* the lifecycle claims, checked on the resource classes used directly *)

IsEventOn(h) == last'.op \in Events /\ last'.h = h

\* C1: once a resource's state is DELETED, every later start(), stop() or
\* delete() on it, made directly or through any stack of decorators, raises
\* the invalid-transition error, and the state stays DELETED.
C1_DeletedIsTerminal ==
    [][\A h \in DOMAIN heap :
         get_state(heap, h) = "DELETED" =>
           /\ get_state(heap', h) = "DELETED"
           /\ \A g \in DOMAIN heap :
                (IsEventOn(g) /\ Target(heap, g) = Target(heap, h)) =>
                    last'.ret = "ValueError"]_vars

\* a deleted resource on which a call made through a decorator has just failed
C1_Witness ==
    /\ last.op \in Events
    /\ last.h \in DOMAIN heap
    /\ Depth(heap, last.h) >= 1
    /\ last.ret = "ValueError"
    /\ get_state(heap, last.h) = "DELETED"

\* C4: start() on a resource in CREATED or STOPPED succeeds and the state
\* becomes RUNNING; start() on a resource in RUNNING fails and the state is
\* unchanged.
C4_Start ==
    [][\A h \in DOMAIN heap :
         (last'.op = "start" /\ last'.h = h) =>
           /\ get_state(heap, h) \in {"CREATED", "STOPPED"} =>
                (last'.ret = "None" /\ get_state(heap', h) = "RUNNING")
           /\ get_state(heap, h) = "RUNNING" =>
                (last'.ret = "ValueError" /\ heap' = heap)]_vars

\* start() has just failed on a running resource
C4_Witness ==
    /\ last.op = "start"
    /\ last.ret = "ValueError"
    /\ last.h \in DOMAIN heap
    /\ get_state(heap, last.h) = "RUNNING"

\* C5: stop() succeeds only when the resource is RUNNING, yielding STOPPED; from
\* CREATED, STOPPED or DELETED it fails and the state is unchanged.
C5_Stop ==
    [][\A h \in DOMAIN heap :
         (last'.op = "stop" /\ last'.h = h) =>
           IF get_state(heap, h) = "RUNNING"
           THEN last'.ret = "None" /\ get_state(heap', h) = "STOPPED"
           ELSE last'.ret = "ValueError" /\ heap' = heap]_vars

\* stop() has just failed on a resource that was never started
C5_Witness ==
    /\ last.op = "stop"
    /\ last.ret = "ValueError"
    /\ last.h \in DOMAIN heap
    /\ get_state(heap, last.h) = "CREATED"

\* C6: delete() succeeds from CREATED and from STOPPED, yielding DELETED, and
\* fails from RUNNING and from DELETED, leaving the state unchanged.
C6_Delete ==
    [][\A h \in DOMAIN heap :
         (last'.op = "delete" /\ last'.h = h) =>
           IF get_state(heap, h) \in {"CREATED", "STOPPED"}
           THEN last'.ret = "None" /\ get_state(heap', h) = "DELETED"
           ELSE last'.ret = "ValueError" /\ heap' = heap]_vars

\* delete() has just failed on a running resource
C6_Witness ==
    /\ last.op = "delete"
    /\ last.ret = "ValueError"
    /\ last.h \in DOMAIN heap
    /\ get_state(heap, last.h) = "RUNNING"

----------------------------------------------------------------------------
(* the Manager claims *)

\* the operations of the Manager that hand out or act on resources
ResourceOps ==
    {"create_resource", "list_resources", "get_resource", "start_resource",
     "stop_resource", "delete_resource", "get_resource_details"}

\* those of them the specification gates on the session
GatedOps == ResourceOps \ {"get_resource"}

LifecycleOps == {"start_resource", "stop_resource", "delete_resource"}

\* the lifecycle state of every stored resource
StoredStates(hp) == [id \in DOMAIN resources |-> get_state(hp, resources[id])]

\* C2: while no user is logged in, no operation of the Manager changes a
\* stored resource's lifecycle state or hands the caller a resource object.
C2_NoMutationUnauthenticated ==
    [][(current_user = None /\ last'.op \in ResourceOps) =>
         /\ last'.ret # "object"
         /\ StoredStates(heap') = StoredStates(heap)]_vars

\* C3: while no user is logged in, createResource, listResources,
\* startResource, stopResource, deleteResource and getResourceDetails return
\* None, an empty dict or False and leave the resource collection, every
\* lifecycle state and the id counter unchanged.
C3_UnauthenticatedFails ==
    [][(current_user = None /\ last'.op \in GatedOps) =>
         /\ last'.op \in {"create_resource", "get_resource_details"} => last'.ret = "None"
         /\ last'.op = "list_resources" => (last'.ret = "dict" /\ last'.keys = {})
         /\ last'.op \in LifecycleOps => last'.ret = "False"
         /\ UNCHANGED <<resources, heap, next_id>>]_vars

\* createResource has just failed before any resource exists and with nobody
\* logged in
C3_Witness ==
    /\ current_user = None
    /\ last.op = "create_resource"
    /\ last.ret = "None"
    /\ DOMAIN resources = {}
    /\ next_id = 1

\* the transitions the lifecycle table forbids
Forbids(state, e) ==
    \/ state = "DELETED"
    \/ state = "RUNNING" /\ e \in {"start", "delete"}
    \/ state \in {"CREATED", "STOPPED"} /\ e = "stop"

EventOf(op) ==
    CASE op = "start_resource" -> "start"
      [] op = "stop_resource" -> "stop"
      [] op = "delete_resource" -> "delete"

\* C7: when an authenticated caller invokes startResource, stopResource or
\* deleteResource on a stored id whose lifecycle state forbids the event, the
\* call does not report success and the lifecycle states, the collection and
\* the session are unchanged; a call that reports success has made the
\* transition.
C7_ForbiddenTransitionSurfaces ==
    [][(current_user # None /\ last'.op \in LifecycleOps
          /\ last'.args[1] \in DOMAIN resources) =>
         LET was == get_state(heap, resources[last'.args[1]])
             now == get_state(heap', resources[last'.args[1]])
         IN
         /\ Forbids(was, EventOf(last'.op)) =>
               /\ last'.ret \in {"ValueError", "False"}
               /\ UNCHANGED <<heap, resources, next_id, current_user>>
         /\ last'.ret = "True" =>
               /\ ~Forbids(was, EventOf(last'.op))
               /\ now # was]_vars

\* deleteResource on a running resource has just raised for a logged-in caller
C7_Witness ==
    /\ current_user # None
    /\ last.op = "delete_resource"
    /\ last.ret = "ValueError"
    /\ last.args[1] \in DOMAIN resources
    /\ get_state(heap, resources[last.args[1]]) = "RUNNING"

\* the stored records with the given username
Records(username) == {i \in 1..Len(store) : store[i].username = username}

\* C8: with the file-backed provider, login(u, p) for a registered user u
\* fails and leaves an unauthenticated session unauthenticated when p differs
\* from the stored password, and succeeds when p equals it, after which the
\* session is authenticated as u with u's stored role.
C8_FileLogin ==
    [][(login_service = "FileLogin" /\ last'.op = "login"
          /\ Records(last'.args[1]) # {}) =>
         LET rec == store[CHOOSE i \in Records(last'.args[1]) : TRUE] IN
         IF last'.args[2] = rec.password
         THEN /\ last'.ret = "True"
              /\ current_user' = Some(User(rec.username, rec.password, rec.role))
         ELSE /\ last'.ret = "False"
              /\ current_user = None => current_user' = None]_vars

\* alice has just logged in through the file-backed provider as admin
C8_Witness ==
    /\ login_service = "FileLogin"
    /\ last.op = "login"
    /\ last.args = <<"alice", "pw1">>
    /\ last.ret = "True"
    /\ current_user = Some(User("alice", "pw1", "admin"))

\* C9: if the provider accepts the credentials of a username that has no record
\* in the user store, login returns failure and the session is not
\* authenticated as that username.
C9_LoginFailsClosed ==
    [][(last'.op = "login" /\ Records(last'.args[1]) = {}
          /\ authenticate(login_service, store, last'.args[1], last'.args[2])) =>
         /\ last'.ret = "False"
         /\ current_user' = None \/ current_user'[1].username # last'.args[1]]_vars

\* the remote stub accepted bob, who has no record, and login has returned False
C9_Witness ==
    /\ login_service = "ServiceLogin"
    /\ last.op = "login"
    /\ last.args = <<"bob", "pw2">>
    /\ Records("bob") = {}
    /\ last.ret = "False"

\* C10: a login call that returns failure leaves the session exactly as it was
\* before the call.
C10_FailedLoginKeepsSession ==
    [][(last'.op = "login" /\ last'.ret = "False") => current_user' = current_user]_vars

----------------------------------------------------------------------------
(* the session and the user store *)

\* C11: logout() never fails and always ends with nobody logged in, whether or
\* not a user was logged in before; it leaves the resource collection, every
\* lifecycle state, the id counter and the user store unchanged.
C11_Logout ==
    [][last'.op = "logout" =>
         /\ last'.ret = "None"
         /\ current_user' = None
         /\ UNCHANGED <<resources, heap, next_id, store>>]_vars

\* logout() has just returned while a stored resource is running
C11_Witness ==
    /\ last.op = "logout"
    /\ current_user = None
    /\ \E id \in DOMAIN resources : get_state(heap, resources[id]) = "RUNNING"

\* C15: registering a username that is already in the user store returns
\* failure and leaves the stored record as it was, whatever password and role
\* the second registration gives.
C15_DuplicateRegistration ==
    [][(last'.op = "register_user" /\ Records(last'.args[1]) # {}) =>
         /\ last'.ret = "False"
         /\ store' = store]_vars

\* alice/pw1/admin is stored and registering alice with pw2 has just failed
C15_Witness ==
    /\ last.op = "register_user"
    /\ last.args = <<"alice", "pw2", "user">>
    /\ last.ret = "False"
    /\ Records("alice") # {}
    /\ \A i \in Records("alice") : store[i] = to_dict(User("alice", "pw1", "admin"))

\* C16: registerUser is not gated: for a new username it succeeds with and
\* without a logged-in user, and it changes neither the session nor the
\* resource collection.
C16_RegisterNotGated ==
    [][(last'.op = "register_user" /\ Records(last'.args[1]) = {}) =>
         /\ last'.ret = "True"
         /\ store' = Append(store, [username |-> last'.args[1],
                                    password |-> last'.args[2],
                                    role |-> last'.args[3]])
         /\ UNCHANGED <<current_user, resources, heap, next_id>>]_vars

\* bob has just been registered while alice is logged in and a resource exists
C16_Witness ==
    /\ last.op = "register_user"
    /\ last.args[1] = "bob"
    /\ last.ret = "True"
    /\ current_user # None
    /\ DOMAIN resources # {}

\* a registration has just succeeded with nobody logged in
C16_WitnessUnauthenticated ==
    /\ last.op = "register_user"
    /\ last.ret = "True"
    /\ current_user = None

----------------------------------------------------------------------------
(* creating resources through the Manager *)

CreateSucceeded == last'.op = "create_resource" /\ last'.ret = "str"

\* the number a decimal id stands for
IdNumber(id) == CHOOSE n \in 0..(next_id + 1) : str(n) = id

\* what get_details shows for an AppService built from AppCfg under `id`
AppCfgDetails(id, state) ==
    <<"AppService", id, AppCfg.name, "State", state, "Runtime", AppCfg.runtime,
      "Region", AppCfg.region, "Replicas", AppCfg.replica_count>>

C13_IdsNeverReused ==
    [][/\ next_id' >= next_id
       /\ \A k \in DOMAIN resources : k \in DOMAIN resources' /\ IdNumber(k) < next_id
       /\ CreateSucceeded =>
            /\ IdNumber(last'.out[1]) = next_id
            /\ next_id' > next_id
            /\ \A k \in DOMAIN resources : IdNumber(k) < IdNumber(last'.out[1])]_vars

\* a second resource has been created after the first was deleted and the user
\* logged out and in again
C13_Witness ==
    /\ last.op = "create_resource"
    /\ last.out = <<"2">>
    /\ "1" \in DOMAIN resources
    /\ get_state(heap, resources["1"]) = "DELETED"

\* C14: createResource by a logged-in caller fails with the unknown-type error
\* for an unregistered type tag and fails for a registered tag with a required
\* field missing; either way the collection, the id counter and the session
\* are unchanged.
C14_CreateFailsWhole ==
    [][\A c \in ManagerCreates, enable_logging \in BOOLEAN :
         (current_user # None /\ CreateResource(c[1], c[2], enable_logging)) =>
           /\ c[1] \notin DOMAIN registry =>
                /\ last'.ret = "ValueError"
                /\ last'.out = <<"Unknown resource type: " \o c[1]>>
           /\ (c[1] \in DOMAIN registry
                 /\ ~({"name"} \cup {Params(registry[c[1]])[i] :
                         i \in 1..Len(Params(registry[c[1]]))} \subseteq DOMAIN c[2])) =>
                last'.ret = "KeyError"
           /\ last'.ret \in {"ValueError", "KeyError"} =>
                UNCHANGED <<resources, heap, next_id, current_user>>]_vars

\* a create with the region missing has just failed while a resource is stored
C14_Witness ==
    /\ current_user # None
    /\ last.op = "create_resource"
    /\ last.ret = "KeyError"
    /\ last.out = <<"region">>
    /\ DOMAIN resources = {"1"}
    /\ next_id = 2

\* a create with an unregistered tag has just failed
C14_WitnessUnknownType ==
    /\ current_user # None
    /\ last.op = "create_resource"
    /\ last.ret = "ValueError"
    /\ last.args[1] = "Queue"

----------------------------------------------------------------------------
(* the Logging Decorator, checked on the resource classes used directly *)

\* C17: an event invoked through any number of stacked Logging Decorators
\* ends in the same lifecycle state and with the same success or failure as
\* the event invoked on the unwrapped resource in the same state.
C17_DecorationTransparent ==
    [][\A h \in DOMAIN heap :
         IsEventOn(h) =>
           LET t == Target(heap, h)
               direct == resource_call(heap, t, last'.op)
           IN
           /\ (last'.ret = "ValueError") <=> direct.raised
           /\ (last'.ret = "None") <=> ~direct.raised
           /\ direct.raised => last'.out = <<direct.msg>>
           /\ heap'[t].current_state = direct.heap[t].current_state
           /\ get_state(heap', h) = get_state(direct.heap, t)
           /\ get_state(heap', t) = get_state(direct.heap, t)]_vars

\* a call through two stacked decorators has just moved the resource
C17_Witness ==
    /\ last.op = "stop"
    /\ last.ret = "None"
    /\ last.h \in DOMAIN heap
    /\ Depth(heap, last.h) = 2
    /\ get_state(heap, Target(heap, last.h)) = "STOPPED"

\* a call through two stacked decorators has just failed
C17_WitnessFailure ==
    /\ last.op \in Events
    /\ last.ret = "ValueError"
    /\ last.h \in DOMAIN heap
    /\ Depth(heap, last.h) = 2

\* C18: a logging wrapper and its wrapped target report the same lifecycle
\* state and the same details, and the lifecycle state the wrapper holds is the
\* target's, whichever of the two the calls were made on.
C18_WrapperNeverLags ==
    \A h \in DOMAIN heap :
       IsDecorator(heap[h]) =>
         LET t == Target(heap, h) IN
         /\ get_state(heap, h) = get_state(heap, t)
         /\ get_details(heap, h) = get_details(heap, t)
         /\ get_state_name(heap[h].current_state) = get_state(heap, t)

\* the part of C18 about what the wrapper reports
C18_ReportsAgree ==
    \A h \in DOMAIN heap :
       IsDecorator(heap[h]) =>
         /\ get_state(heap, h) = get_state(heap, Target(heap, h))
         /\ get_details(heap, h) = get_details(heap, Target(heap, h))

\* C19: a start, stop or delete through a Logging Decorator writes one begin
\* record before the call is forwarded and one outcome record after it; the
\* outcome record says success iff the wrapped call succeeded, and a failure
\* is logged with its message and then reaches the caller as the same error.
C19_LogThenRethrow ==
    [][\A h \in DOMAIN heap :
         (IsEventOn(h) /\ IsDecorator(heap[h])) =>
           LET e == last'.op
               name == heap[h].name
               wrapped == call(heap, heap[h].wrapped_resource, e)
               n == Len(last'.log)
               depth == Depth(heap, h)
           IN
           /\ n = 2 * depth
           /\ \A i \in 1..depth : last'.log[i][1] = "Attempting to"
           /\ \A i \in (depth + 1)..n : last'.log[i][1] \in {"Successfully", "Failed to"}
           /\ last'.log[1] = LogBegin(name, e)
           /\ SubSeq(last'.log, 2, n - 1) = wrapped.log
           /\ last'.log[n] = IF wrapped.raised THEN LogFailure(name, e, wrapped.msg)
                                               ELSE LogSuccess(name, e)
           /\ heap' = wrapped.heap
           /\ wrapped.raised =>
                (last'.ret = "ValueError" /\ last'.out = <<wrapped.msg>>)
           /\ ~wrapped.raised => last'.ret = "None"]_vars

\* a failure has just been logged by two decorators and raised to the caller
C19_Witness ==
    /\ last.op = "start"
    /\ last.ret = "ValueError"
    /\ Len(last.log) = 4
    /\ last.log[3][1] = "Failed to"
    /\ last.log[4] = LogFailure(heap[last.h].name, "start", last.out[1])

\* a success has just been logged by a decorator
C19_WitnessSuccess ==
    /\ last.op = "delete"
    /\ last.ret = "None"
    /\ Len(last.log) = 2
    /\ last.log[2] = LogSuccess(heap[last.h].name, "delete")

----------------------------------------------------------------------------
(* the Factory and its registry *)

\* the fields the class registered under `tag` needs, all present in config
HasRequiredFields(tag, config) ==
    LET required == Params(registry[tag]) IN
    {"name"} \cup {required[i] : i \in 1..Len(required)} \subseteq DOMAIN config

\* C20: for every tag in the registry, one added by register() included,
\* create(tag, fields) with all the fields the type requires constructs a
\* resource whose lifecycle state is CREATED.
C20_RegisteredTagsCreate ==
    [][\A c \in FactoryCreates :
         (/\ FactoryCreate(c[1], c[2])
          /\ c[1] \in DOMAIN registry
          /\ HasRequiredFields(c[1], c[2])) =>
            /\ last'.ret = "object"
            /\ last'.h \in DOMAIN heap'
            /\ get_state(heap', last'.h) = "CREATED"]_vars

\* the part of C20 about the three tags the Factory starts with
C20_DefaultTagsCreate ==
    [][\A c \in FactoryCreates :
         (/\ FactoryCreate(c[1], c[2])
          /\ c[1] \in DOMAIN DefaultRegistry
          /\ registry[c[1]] = DefaultRegistry[c[1]]
          /\ HasRequiredFields(c[1], c[2])) =>
            /\ last'.ret = "object"
            /\ last'.h \in DOMAIN heap'
            /\ get_state(heap', last'.h) = "CREATED"]_vars

\* the strategy of the CacheDB just built
BuiltStrategy == heap'[last'.h].attrs["eviction_policy"]

\* C21: create("CacheDB", fields) yields the LRU strategy only when the
\* eviction-policy field is exactly "LRU"; any other value, lowercase "lru"
\* and an omitted field included, yields the FIFO strategy.
C21_EvictionPolicy ==
    [][\A config \in CacheCreates :
         FactoryCreate("CacheDB", config) =>
           /\ last'.ret = "object"
           /\ BuiltStrategy =
                IF "eviction_policy" \in DOMAIN config /\ config["eviction_policy"] = "LRU"
                THEN "LRUStrategy" ELSE "FIFOStrategy"]_vars

\* the part of C21 about a field that is present
C21_PolicyGiven ==
    [][\A config \in CacheCreates :
         (FactoryCreate("CacheDB", config) /\ "eviction_policy" \in DOMAIN config) =>
           /\ last'.ret = "object"
           /\ BuiltStrategy = IF config["eviction_policy"] = "LRU"
                              THEN "LRUStrategy" ELSE "FIFOStrategy"]_vars

----------------------------------------------------------------------------
(* the user store *)

RecordsAfter(username) == {i \in 1..Len(store') : store'[i].username = username}

\* C22: called one after the other, addUser returns false and changes nothing
\* when the username exists, updateUser and deleteUser return false and change
\* nothing when it is not found, and the store never holds two records for one
\* username.
C22_StoreContract ==
    [][/\ (last'.op = "add_user" /\ Records(last'.args[1]) # {}) =>
             (last'.ret = "False" /\ store' = store)
       /\ (last'.op \in {"update_user", "delete_user"} /\ Records(last'.args[1]) = {}) =>
             (last'.ret = "False" /\ store' = store)
       /\ \A username \in Usernames : Cardinality(RecordsAfter(username)) <= 1]_vars

\* an update of a user that is not stored has just failed beside another record
C22_Witness ==
    /\ last.op = "update_user"
    /\ last.ret = "False"
    /\ last.args[1] = "bob"
    /\ Len(store) = 1
    /\ store[1].username = "alice"

\* a delete of a user that is not stored has just failed
C22_WitnessDelete ==
    /\ last.op = "delete_user"
    /\ last.ret = "False"
    /\ Len(store) = 1

\* an add of a stored username has just failed
C22_WitnessAdd ==
    /\ last.op = "add_user"
    /\ last.ret = "False"
    /\ Len(store) = 2

\* C23: the file-backed provider's authenticate(u, p) is true iff the store
\* holds a record for u whose password is p; the remote stub's is true iff u
\* and p are both non-empty, whatever the store holds.
C23_Authenticate ==
    [][last'.op = "authenticate" =>
         LET username == last'.args[1]
             password == last'.args[2]
         IN
         /\ last'.ret \in {"True", "False"}
         /\ login_service = "FileLogin" =>
              ((last'.ret = "True") <=>
                 \E i \in Records(username) : store[i].password = password)
         /\ login_service = "ServiceLogin" =>
              ((last'.ret = "True") <=> (username # "" /\ password # ""))
         /\ store' = store]_vars

\* the stub has just accepted a user the store does not hold
C23_Witness ==
    /\ login_service = "ServiceLogin"
    /\ last.op = "authenticate"
    /\ last.ret = "True"
    /\ Records(last.args[1]) = {}
    /\ store # <<>>

\* the stub has just refused an empty password
C23_WitnessEmpty ==
    /\ login_service = "ServiceLogin"
    /\ last.op = "authenticate"
    /\ last.args = <<"bob", "">>
    /\ last.ret = "False"
    /\ Records("bob") # {}

\* the file-backed provider has just refused a stored user's wrong password
C23_WitnessFile ==
    /\ login_service = "FileLogin"
    /\ last.op = "authenticate"
    /\ last.ret = "False"
    /\ Records(last.args[1]) # {}

\* the file-backed provider has just accepted a stored user
C23_WitnessFileAccepts ==
    /\ login_service = "FileLogin"
    /\ last.op = "authenticate"
    /\ last.ret = "True"

----------------------------------------------------------------------------
(* the Manager used by two users in turn *)

ByIdOps == LifecycleOps \cup {"get_resource_details"}

\* C24: start, stop, delete and details by a logged-in caller with an id that
\* is not in the collection return False or None and do not raise; the
\* collection, the lifecycle states, the id counter and the session are
\* unchanged.
C24_MissingId ==
    [][(/\ current_user # None
        /\ last'.op \in ByIdOps
        /\ last'.args[1] \notin DOMAIN resources) =>
          /\ last'.ret = IF last'.op = "get_resource_details" THEN "None" ELSE "False"
          /\ UNCHANGED <<resources, heap, next_id, current_user>>]_vars

\* a logged-in caller has just stopped an id that is not stored, beside one
\* that is
C24_Witness ==
    /\ current_user # None
    /\ last.op = "stop_resource"
    /\ last.args = <<"2">>
    /\ last.ret = "False"
    /\ DOMAIN resources = {"1"}

\* a logged-in caller has just asked for the details of an id that is not stored
C24_WitnessDetails ==
    /\ current_user # None
    /\ last.op = "get_resource_details"
    /\ last.args[1] \notin DOMAIN resources
    /\ last.ret = "None"

\* C26: the resource collection only grows: every stored id stays stored under
\* the same object; a resource whose deleteResource succeeded is still in the
\* collection, is still listed, and its details report state DELETED.
C26_CollectionOnlyGrows ==
    [][/\ \A id \in DOMAIN resources :
            id \in DOMAIN resources' /\ resources'[id] = resources[id]
       /\ (last'.op = "delete_resource" /\ last'.ret = "True") =>
            /\ last'.args[1] \in DOMAIN resources'
            /\ get_state(heap', resources'[last'.args[1]]) = "DELETED"
       /\ \A id \in DOMAIN resources :
            (current_user # None /\ get_state(heap, resources[id]) = "DELETED") =>
              /\ last'.op = "list_resources" => id \in last'.keys
              /\ (last'.op = "get_resource_details" /\ last'.args = <<id>>) =>
                   (last'.ret = "str" /\ SubSeq(last'.out, 4, 5) = <<"State", "DELETED">>)]_vars

\* the details of a deleted resource have just been read
C26_Witness ==
    /\ last.op = "get_resource_details"
    /\ last.args = <<"1">>
    /\ last.ret = "str"
    /\ last.out[5] = "DELETED"
    /\ DOMAIN resources = {"1", "2"}

\* a deleted resource has just been listed
C26_WitnessListed ==
    /\ last.op = "list_resources"
    /\ \E id \in last.keys : get_state(heap, resources[id]) = "DELETED"

\* the keys a Manager has handed out when its counter stands at n + 1
KeysUpTo(n) == {str(i) : i \in 1..n}

\* C27: each entry of the collection is keyed by the id recorded in the
\* resource, read through a logging wrapper or not; the keys are the decimal
\* strings "1".."n", the id counter is n + 1, and n goes up by one with each
\* successful create and with nothing else.
C27_KeysAreIds ==
    [][/\ \A k \in DOMAIN resources' :
            /\ heap'[resources'[k]].id = k
            /\ heap'[Target(heap', resources'[k])].id = k
       /\ DOMAIN resources' = KeysUpTo(next_id' - 1)
       /\ Cardinality(DOMAIN resources') =
            Cardinality(DOMAIN resources) + IF CreateSucceeded THEN 1 ELSE 0]_vars

\* a create has just failed while one resource is stored behind a logging
\* wrapper
C27_Witness ==
    /\ DOMAIN resources = {"1"}
    /\ next_id = 2
    /\ IsDecorator(heap[resources["1"]])
    /\ last.op = "create_resource"
    /\ last.ret = "KeyError"

\* two resources are stored, the second behind a logging wrapper
C27_WitnessTwo ==
    /\ DOMAIN resources = {"1", "2"}
    /\ next_id = 3
    /\ IsDecorator(heap[resources["2"]])
    /\ ~IsDecorator(heap[resources["1"]])

\* C29: at most one user is logged in at a time; a login with B's stored
\* credentials while A is logged in succeeds without a logout in between and
\* makes B the session, and a successful login leaves the collection, the
\* lifecycle states and the id counter unchanged.
C29_LoginReplacesSession ==
    [][/\ Len(current_user') <= 1
       /\ last'.op = "login" =>
            LET username == last'.args[1]
                password == last'.args[2]
            IN
            /\ (/\ current_user # None
                /\ \E i \in Records(username) : store[i].password = password) =>
                  last'.ret = "True"
            /\ last'.ret = "True" =>
                 /\ \E i \in Records(username) :
                       current_user' = <<[username |-> username,
                                          password |-> store[i].password,
                                          role |-> store[i].role]>>
                 /\ UNCHANGED <<resources, heap, next_id>>]_vars

\* bob has just logged in over a collection holding a running resource
C29_Witness ==
    /\ last.op = "login"
    /\ last.ret = "True"
    /\ current_user # None
    /\ current_user[1].username = "bob"
    /\ Records("alice") # {}
    /\ \E id \in DOMAIN resources : get_state(heap, resources[id]) = "RUNNING"

\* C30: the gate looks only at whether a user is logged in: resources persist
\* across logout and login, and what listing, starting, stopping, deleting and
\* reading a stored resource does for a logged-in user is decided by the
\* collection and the resource alone, the same for every user and role.
C30_GateIgnoresIdentity ==
    [][/\ last'.op \in {"login", "logout"} => UNCHANGED <<resources, heap, next_id>>
       /\ current_user # None =>
            /\ last'.op = "list_resources" => last'.keys = DOMAIN resources
            /\ \A id \in DOMAIN resources :
                 /\ (last'.op \in LifecycleOps /\ last'.args = <<id>>) =>
                      LET r == call(heap, resources[id], EventOf(last'.op)) IN
                      /\ last'.ret = IF r.raised THEN "ValueError" ELSE "True"
                      /\ heap' = r.heap
                      /\ last'.log = r.log
                 /\ (last'.op = "get_resource_details" /\ last'.args = <<id>>) =>
                      /\ last'.ret = "str"
                      /\ last'.out = get_details(heap, resources[id])]_vars

\* bob, whose role is user, has just deleted a stored resource while alice is
\* a registered admin
C30_Witness ==
    /\ current_user # None
    /\ current_user[1].username = "bob"
    /\ current_user[1].role = "user"
    /\ Records("alice") # {}
    /\ last.op = "delete_resource"
    /\ last.ret = "True"
    /\ DOMAIN resources = {"1", "2"}

----------------------------------------------------------------------------
(* the session beside a store that is written to directly *)

\* the record of the session's user is no longer what login read
SessionIsStale ==
    /\ current_user # None
    /\ \A i \in 1..Len(store) : store[i] # current_user[1]

\* C28: the session is a copy taken at login: it stays the user and role read
\* then until the next logout or login call, whatever is registered, updated
\* or deleted in the store meanwhile, and gated operations keep succeeding for
\* it.
C28_SessionIsACopy ==
    [][/\ last'.op \notin {"login", "logout"} => current_user' = current_user
       /\ (last'.op = "login" /\ last'.ret = "True") =>
            \E i \in 1..Len(store) : current_user' = <<store[i]>>
       /\ SessionIsStale =>
            /\ last'.op = "list_resources" => last'.keys = DOMAIN resources
            /\ last'.op = "create_resource" =>
                 (last'.ret = "str" /\ last'.out[1] \in DOMAIN resources')
            /\ (last'.op = "start_resource" /\ last'.args[1] \in DOMAIN resources) =>
                 last'.ret \in {"True", "ValueError"}]_vars

\* alice, logged in as admin, has just created a resource after her record
\* was deleted from the store
C28_Witness ==
    /\ current_user = <<[username |-> "alice", password |-> "pw1", role |-> "admin"]>>
    /\ Records("alice") = {}
    /\ last.op = "create_resource"
    /\ last.ret = "str"

\* alice, logged in as admin, has just started a resource after her role in
\* the store was changed
C28_WitnessUpdated ==
    /\ current_user = <<[username |-> "alice", password |-> "pw1", role |-> "admin"]>>
    /\ \E i \in Records("alice") : store[i].role = "superadmin"
    /\ last.op = "start_resource"
    /\ last.ret = "True"

----------------------------------------------------------------------------
(* the user store under two callers *)

\* C25: add_user is not atomic: the call decides and writes on the data it
\* read, whatever the file holds by then, so that two calls that interleave
\* between read and write can both report success for one username, or a user
\* whose add_user reported success can be missing from the store.
C25_AddUserNotAtomic ==
    [][\A c \in Callers :
         (pending[c].pc = "read" /\ pending'[c].pc = "returned") =>
           LET user == pending[c].user
               data == pending[c].data
               known == \E i \in 1..Len(data) : data[i].username = user.username
           IN
           /\ (pending'[c].ret = "True") <=> ~known
           /\ ~known => store' = Append(data, [username |-> user.username,
                                               password |-> user.password,
                                               role |-> user.role])
           /\ known => store' = store]_vars

\* both callers were told that they had added alice, and one record is stored
C25_Witness ==
    /\ \A c \in Callers :
         /\ pending[c].pc = "returned"
         /\ pending[c].ret = "True"
         /\ pending[c].user.username = "alice"
    /\ pending[1].user # pending[2].user
    /\ Cardinality(Records("alice")) = 1

\* a caller was told that it had added alice, and the store does not hold her
C25_WitnessLost ==
    /\ pending[1].pc = "returned"
    /\ pending[1].ret = "True"
    /\ pending[1].user.username = "alice"
    /\ Records("alice") = {}

----------------------------------------------------------------------------
(* the history of a resource *)

\* the resources themselves, not the decorators
Plain(hp) == {h \in DOMAIN hp : ~IsDecorator(hp[h])}

\* the resource h of the heap hp can be brought to DELETED by at most two
\* calls that succeed
DeletableWithinTwo(hp, h) ==
    \E e1 \in Events :
       LET r1 == call(hp, h, e1) IN
       /\ ~r1.raised
       /\ \/ get_state(r1.heap, h) = "DELETED"
          \/ \E e2 \in Events :
                LET r2 == call(r1.heap, h, e2) IN
                ~r2.raised /\ get_state(r2.heap, h) = "DELETED"

\* C31: a resource starts in CREATED and never comes back to CREATED once it
\* has left it; the state just before DELETED is CREATED or STOPPED; and from
\* every state other than DELETED, DELETED can be reached by at most two
\* operations that succeed.
C31_ResourceHistory ==
    [][/\ \A h \in Plain(heap') \ DOMAIN heap : get_state(heap', h) = "CREATED"
       /\ \A h \in Plain(heap) :
            /\ get_state(heap, h) # "CREATED" => get_state(heap', h) # "CREATED"
            /\ (get_state(heap', h) = "DELETED" /\ get_state(heap, h) # "DELETED") =>
                 get_state(heap, h) \in {"CREATED", "STOPPED"}
       /\ \A h \in Plain(heap') :
            (/\ last'.h \in DOMAIN heap'
             /\ h = Target(heap', last'.h)
             /\ get_state(heap', h) # "DELETED") => DeletableWithinTwo(heap', h)]_vars

\* a resource has just been deleted beside one that is running and so must be
\* stopped first
C31_Witness ==
    /\ last.op = "delete"
    /\ last.ret = "None"
    /\ get_state(heap, last.h) = "DELETED"
    /\ \E h \in Plain(heap) :
          /\ get_state(heap, h) = "RUNNING"
          /\ call(heap, h, "delete").raised
          /\ DeletableWithinTwo(heap, h)

\* a resource that was running has just been stopped
C31_WitnessStopped ==
    /\ last.op = "stop"
    /\ last.ret = "None"
    /\ get_state(heap, last.h) = "STOPPED"

====
